---- MODULE Spec2Model ----
(***************************************************************************)
(* Attendance extraction of RegistroAsistenciav2:                          *)
(*   src/src/lib/excel-processor.ts  cleanData, calculateHours,            *)
(*                                   processExcel                          *)
(* (lines 1-154; the rest of that file repeats an earlier revision, which  *)
(* takes the name at nameIndex + 2 and computes no hours).                 *)
(*                                                                         *)
(* Strings are tuples of one-character strings, so that split, trim,       *)
(* includes and the time regex are computed character by character.        *)
(* Numbers are kept in hundredths (8.0 hours is 800, the count 1 is 100):   *)
(* every number the program produces has at most two decimals.             *)
(* A cell is a record [t, n, s]: t is the JavaScript type of the value,    *)
(* n its number (in hundredths) and s its characters.                      *)
(***************************************************************************)
EXTENDS Integers, Sequences, FiniteSets, TLC

VARIABLES
    \* ---- processExcel(file, config) ----
    sheetName,    \* config.sheetName
    jsonData,     \* the rows sheet_to_json returns for the requested sheet
    configDays,   \* config.days, the comma separated list typed in the form
    pc,           \* position in processExcel: start, scan, done, failed
    data,         \* the cleaned grid
    days,         \* the parsed day list
    i,            \* the cursor of the header scan (0-based, as in the code)
    records,      \* the records pushed so far
    error,        \* the error thrown and the pieces of its message
    clock,        \* calendar day shown by the wall clock (days since the call)
    log,          \* history: for each header row visited, what the scan computed
    visited,      \* history: the value of the cursor at each iteration of the scan
    \* ---- calculateHours(timeString) called on its own ----
    timeString,   \* the argument
    hpc,          \* "call" before the call, "done" after it
    hours,        \* the value returned
    inDay,        \* history: calendar day read by `new Date()` at line 57
    outDay,       \* history: calendar day read by `new Date()` at line 60
    \* ---- cleanData(data) called on its own ----
    rawData,      \* the argument
    cpc,          \* "call" before the call, "cleaned" after it, "again" after
                  \* the result was passed to cleanData once more
    cleaned,      \* cleanData(rawData)
    cleanedAgain, \* cleanData(cleaned)
    \* ---- ExcelExtractor, the component that calls processExcel ----
    file,            \* useState file: the selected file, NO_FILE for null
    extractedData,   \* useState extractedData
    aiSuggestions,   \* useState aiSuggestions
    formSheetName,   \* the sheetName field of the form
    processing,      \* the processExcel calls in flight, each with the file it was given
    suggesting,      \* the suggestMetadata calls in flight, each with the file that was read
    toast,           \* the title of the last toast
    dataFile,        \* history: the file extractedData was extracted from
    suggestionsFile, \* history: the file aiSuggestions was computed for
    sheetNameFile,   \* history: the file whose suggestion filled formSheetName
    \* ---- exportToCsv(data, filename) called on its own ----
    csvData,      \* the argument data
    xpc,          \* "call" before the call, "done" after it
    csvRows       \* the lines of the file written

extractVars == <<sheetName, jsonData, configDays, pc, data, days, i, records, error, clock, log,
                 visited>>
hoursVars   == <<timeString, hpc, hours, inDay, outDay>>
cleanVars   == <<rawData, cpc, cleaned, cleanedAgain>>
uiRest      == <<file, aiSuggestions, formSheetName, processing, suggesting,
                 suggestionsFile, sheetNameFile>>
uiVars      == <<uiRest, extractedData, toast, dataFile>>
csvVars     == <<csvData, xpc, csvRows>>
vars        == <<extractVars, hoursVars, cleanVars, uiVars, csvVars>>

----------------------------------------------------------------------------
(* Bounds of the model *)

\* rows of the raw grid
MaxRows == 4
\* newline separated segments of a punch string given to calculateHours
MaxSegs == 3

----------------------------------------------------------------------------
(* Values *)

Null      == [t |-> "null",      n |-> 0, s |-> <<>>]
Undefined == [t |-> "undefined", n |-> 0, s |-> <<>>]
Num(x)    == [t |-> "number",    n |-> x, s |-> <<>>]
Str(x)    == [t |-> "string",    n |-> 0, s |-> x]

\* a whole number as a value (hundredths)
Whole(x) == Num(100 * x)

\* row[j] with a 0-based index: undefined outside the row
At(row, j) == IF j >= 0 /\ j < Len(row) THEN row[j + 1] ELSE Undefined

\* JavaScript truthiness of a value: null, undefined, "" and 0 are falsy
Truthy(c) ==
    CASE c.t = "null"      -> FALSE
      [] c.t = "undefined" -> FALSE
      [] c.t = "number"    -> c.n # 0
      [] c.t = "string"    -> c.s # <<>>
      [] OTHER             -> TRUE

----------------------------------------------------------------------------
(* String helpers *)

Digits == {"0", "1", "2", "3", "4", "5", "6", "7", "8", "9"}

DigitVal(c) ==
    CASE c = "0" -> 0 [] c = "1" -> 1 [] c = "2" -> 2 [] c = "3" -> 3
      [] c = "4" -> 4 [] c = "5" -> 5 [] c = "6" -> 6 [] c = "7" -> 7
      [] c = "8" -> 8 [] c = "9" -> 9

DigitChar(d) ==
    CASE d = 0 -> "0" [] d = 1 -> "1" [] d = 2 -> "2" [] d = 3 -> "3"
      [] d = 4 -> "4" [] d = 5 -> "5" [] d = 6 -> "6" [] d = 7 -> "7"
      [] d = 8 -> "8" [] d = 9 -> "9"

\* String(n) for a natural number
RECURSIVE NatToString(_)
NatToString(x) ==
    IF x < 10 THEN <<DigitChar(x)>>
    ELSE NatToString(x \div 10) \o <<DigitChar(x % 10)>>

\* parseInt(s, 10) for a string of digits
RECURSIVE parseInt(_)
parseInt(s) ==
    IF s = <<>> THEN 0
    ELSE 10 * parseInt(SubSeq(s, 1, Len(s) - 1)) + DigitVal(s[Len(s)])

\* the characters String.prototype.trim removes
WhiteSpace == {" ", "\t", "\n", "\r"}

RECURSIVE TrimStart(_)
TrimStart(s) ==
    IF s # <<>> /\ s[1] \in WhiteSpace THEN TrimStart(Tail(s)) ELSE s

RECURSIVE TrimEnd(_)
TrimEnd(s) ==
    IF s # <<>> /\ s[Len(s)] \in WhiteSpace THEN TrimEnd(SubSeq(s, 1, Len(s) - 1)) ELSE s

\* mutant: nothing is trimmed
MutTrimNothing(s) == s

trim(s) == TrimEnd(TrimStart(s))

\* s.split(sep) for a one-character separator: always at least one part
RECURSIVE SplitFrom(_, _, _)
SplitFrom(s, sep, cur) ==
    IF s = <<>> THEN <<cur>>
    ELSE IF s[1] = sep THEN <<cur>> \o SplitFrom(Tail(s), sep, <<>>)
    ELSE SplitFrom(Tail(s), sep, Append(cur, s[1]))

split(s, sep) == SplitFrom(s, sep, <<>>)

\* s.includes(sub)
includes(s, sub) ==
    \E p \in 1..(Len(s) - Len(sub) + 1) : SubSeq(s, p, p + Len(sub) - 1) = sub

\* parts joined by a one character separator
RECURSIVE join(_, _)
join(parts, sep) ==
    IF parts = <<>> THEN <<>>
    ELSE IF Len(parts) = 1 THEN parts[1]
    ELSE parts[1] \o <<sep>> \o join(Tail(parts), sep)

----------------------------------------------------------------------------
(* calculateHours *)

NO_HAY_REGISTRO ==
    <<"N","O"," ","H","A","Y"," ","R","E","G","I","S","T","R","O">>
REGISTRO_INCOMPLETO ==
    <<"R","E","G","I","S","T","R","O"," ","I","N","C","O","M","P","L","E","T","O">>

\* mutant: the empty segments are not filtered out
MutPartsNoFilter(s) ==
    [k \in 1..Len(split(s, "\n")) |-> trim(split(s, "\n")[k])]

\* timeString.split('\n').map(p => p.trim()).filter(p => p)
Parts(s) ==
    LET lines == split(s, "\n")
    IN  SelectSeq([k \in 1..Len(lines) |-> trim(lines[k])], LAMBDA p : p # <<>>)

\* /(\d{1,2}):(\d{2})/ tried at position p: the greedy two digit hour first
MatchAt2(s, p) ==
    /\ p + 4 <= Len(s)
    /\ s[p] \in Digits /\ s[p + 1] \in Digits
    /\ s[p + 2] = ":"
    /\ s[p + 3] \in Digits /\ s[p + 4] \in Digits
MatchAt1(s, p) ==
    /\ p + 3 <= Len(s)
    /\ s[p] \in Digits
    /\ s[p + 1] = ":"
    /\ s[p + 2] \in Digits /\ s[p + 3] \in Digits

NoMatch == [ok |-> FALSE, h |-> <<>>, m |-> <<>>]

\* s.match(timeRegex): the leftmost match, groups 1 and 2
match(s) ==
    LET hits == {p \in 1..Len(s) : MatchAt2(s, p) \/ MatchAt1(s, p)}
    IN  IF hits = {} THEN NoMatch
        ELSE LET p == CHOOSE q \in hits : \A r \in hits : q <= r
             IN  IF MatchAt2(s, p)
                 THEN [ok |-> TRUE, h |-> SubSeq(s, p, p + 1), m |-> SubSeq(s, p + 3, p + 4)]
                 ELSE [ok |-> TRUE, h |-> SubSeq(s, p, p), m |-> SubSeq(s, p + 2, p + 3)]

\* new Date() read on calendar day d, then setHours(h, m, 0, 0): minutes since
\* the midnight of day 0.  Hours and minutes out of range roll over.  Every day
\* has 24 hours here: daylight saving changes of the local time zone are left out.
setHours(d, h, m) == d * 1440 + h * 60 + m

\* parseFloat((diffMinutes / 60).toFixed(2)) in hundredths.  100*d/60 is never
\* half way between two hundredths, so the result is the nearest one.
toFixed2Hours(diffMinutes) == (10 * diffMinutes + 3) \div 6

\* outDate <= inDate
NotAfter(inDate, outDate) == outDate <= inDate

\* calculateHours(timeString), the two `new Date()` reading days dIn and dOut
\* lines 38-70: the argument is a string that is not empty
hoursOfString(str, dIn, dOut) ==
    LET parts == Parts(str) IN
    IF Len(parts) = 0 THEN Str(NO_HAY_REGISTRO)
    ELSE IF Len(parts) = 1 THEN Str(REGISTRO_INCOMPLETO)
    ELSE
    LET inMatch  == match(parts[1])
        outMatch == match(parts[Len(parts)])
    IN
    IF ~inMatch.ok \/ ~outMatch.ok THEN Str(REGISTRO_INCOMPLETO)
    ELSE
    LET inDate  == setHours(dIn, parseInt(inMatch.h), parseInt(inMatch.m))
        outDate == setHours(dOut, parseInt(outMatch.h), parseInt(outMatch.m))
    IN
    IF NotAfter(inDate, outDate) THEN Str(REGISTRO_INCOMPLETO)
    ELSE Num(toFixed2Hours(outDate - inDate))

\* an exception leaving the function
Thrown(name) == [t |-> "throw", n |-> 0, s |-> name]

\* mutant: without the typeof test a number reaches timeString.split, which
\* is no function
MutCalculateHoursNoTypeCheck(value, dIn, dOut) ==
    IF ~Truthy(value) THEN Str(NO_HAY_REGISTRO)
    ELSE IF value.t # "string" THEN Thrown(<<"T","y","p","e","E","r","r","o","r">>)
    ELSE hoursOfString(value.s, dIn, dOut)

\* lines 33-71
calculateHours(value, dIn, dOut) ==
    IF ~Truthy(value) \/ value.t # "string" THEN Str(NO_HAY_REGISTRO)
    ELSE hoursOfString(value.s, dIn, dOut)

----------------------------------------------------------------------------
(* Inputs of calculateHours *)

\* "HH:MM"
Pad2(x) == IF x < 10 THEN <<"0">> \o NatToString(x) ELSE NatToString(x)
HHMM(h, m) == Pad2(h) \o <<":">> \o Pad2(m)

SegPool ==
    { <<>>, <<" ">>,
      HHMM(8, 0), HHMM(16, 0), HHMM(15, 45), HHMM(15, 30), HHMM(15, 44),
      <<" ">> \o HHMM(8, 0) \o <<" ", "\t">>,
      <<"8", ":", "0", "1">>,
      <<"7", ":", "5">>,
      <<"a", "b">>,
      <<"E">> \o HHMM(16, 0) \o <<"S">>,
      HHMM(25, 70), HHMM(99, 59),
      <<"1">> \o HHMM(8, 0) }

RECURSIVE SeqsUpTo(_, _)
SeqsUpTo(S, k) ==
    IF k = 0 THEN {<<>>}
    ELSE LET shorter == SeqsUpTo(S, k - 1)
         IN  shorter \cup {Append(q, x) : q \in {r \in shorter : Len(r) = k - 1}, x \in S}

PunchInputs ==
    {Null, Undefined, Num(0), Whole(8)}
        \cup {Str(join(segs, "\n")) : segs \in SeqsUpTo(SegPool, MaxSegs)}

----------------------------------------------------------------------------
(* cleanData *)

\* cell !== null && cell !== undefined && cell !== ''
NonEmptyCell(c) == ~(c.t = "null" \/ c.t = "undefined" \/ (c.t = "string" /\ c.s = <<>>))

\* mutant: a row is kept only when its first cell has a value
MutRowHasValueFirstCell(row) == row # <<>> /\ NonEmptyCell(row[1])

\* row.some(cell => ...)
RowHasValue(row) == \E k \in 1..Len(row) : NonEmptyCell(row[k])

RECURSIVE MaxLen(_)
MaxLen(rows) ==
    IF rows = <<>> THEN 0
    ELSE LET m == MaxLen(Tail(rows))
         IN  IF Len(rows[1]) > m THEN Len(rows[1]) ELSE m

\* mutant: the columns empty in the first row are taken for empty
MutEmptyInFirstRow(filteredData) ==
    {j \in 0..(MaxLen(filteredData) - 1) : ~NonEmptyCell(At(filteredData[1], j))}

\* the 0-based column indices empty in every row of filteredData
emptyColumnIndices(filteredData) ==
    {j \in 0..(MaxLen(filteredData) - 1) :
        \A r \in 1..Len(filteredData) : ~NonEmptyCell(At(filteredData[r], j))}

\* mutant: the column after each empty column is removed instead
RECURSIVE MutDropColumnsOffByOne(_, _, _)
MutDropColumnsOffByOne(row, j, empty) ==
    IF row = <<>> THEN <<>>
    ELSE IF (j - 1) \in empty THEN MutDropColumnsOffByOne(Tail(row), j + 1, empty)
    ELSE <<row[1]>> \o MutDropColumnsOffByOne(Tail(row), j + 1, empty)

\* row.filter((_, j) => !emptyColumnIndices.has(j))
RECURSIVE DropColumns(_, _, _)
DropColumns(row, j, empty) ==
    IF row = <<>> THEN <<>>
    ELSE IF j \in empty THEN DropColumns(Tail(row), j + 1, empty)
    ELSE <<row[1]>> \o DropColumns(Tail(row), j + 1, empty)

cleanData(grid) ==
    LET filteredData == SelectSeq(grid, RowHasValue) IN
    IF Len(filteredData) = 0 THEN <<>>
    ELSE LET empty == emptyColumnIndices(filteredData)
         IN  IF Cardinality(empty) > 0
             THEN [r \in 1..Len(filteredData) |-> DropColumns(filteredData[r], 0, empty)]
             ELSE filteredData

----------------------------------------------------------------------------
(* processExcel: the header scan *)

ID_MARKER     == <<"I","D"," ",":">>
NOMBRE_MARKER == <<"N","o","m","b","r","e"," ",":">>
DEPT_MARKER   == <<"D","e","p","t","."," ",":">>

\* typeof cell === 'string' && cell.includes(marker)
HasMarker(c, marker) == c.t = "string" /\ includes(c.s, marker)

\* row.some(cell => typeof cell === 'string' && cell.includes('ID :'))
isIdRow(row) == \E k \in 1..Len(row) : HasMarker(row[k], ID_MARKER)

\* row.findIndex(cell => typeof cell === 'string' && cell.includes(marker))
findIndex(row, marker) ==
    LET hits == {k \in 1..Len(row) : HasMarker(row[k], marker)}
    IN  IF hits = {} THEN -1
        ELSE (CHOOSE k \in hits : \A q \in hits : k <= q) - 1

\* index !== -1 && (index + offset < row.length) ? row[index + offset] : null
FieldAt(row, index, offset) ==
    IF index # -1 /\ index + offset < Len(row) THEN At(row, index + offset) ELSE Null

ID_OFFSET == 2
NAME_OFFSET == 1
DEPT_OFFSET == 2

\* mutant: the name is taken two places after its marker
MutNameOfOffsetTwo(row) == FieldAt(row, findIndex(row, NOMBRE_MARKER), 2)

idOf(row)         == FieldAt(row, findIndex(row, ID_MARKER), ID_OFFSET)
nameOf(row)       == FieldAt(row, findIndex(row, NOMBRE_MARKER), NAME_OFFSET)
departmentOf(row) == FieldAt(row, findIndex(row, DEPT_MARKER), DEPT_OFFSET)

\* ---- objects: the keys in insertion order, a key written twice keeps its place
Put(obj, key, val) ==
    IF \E k \in 1..Len(obj) : obj[k].k = key
    THEN [k \in 1..Len(obj) |-> IF obj[k].k = key THEN [k |-> key, v |-> val] ELSE obj[k]]
    ELSE Append(obj, [k |-> key, v |-> val])

RECURSIVE PutAll(_, _)
PutAll(obj, more) ==
    IF more = <<>> THEN obj ELSE PutAll(Put(obj, more[1].k, more[1].v), Tail(more))

HasKey(obj, key) == \E k \in 1..Len(obj) : obj[k].k = key
Get(obj, key) ==
    IF HasKey(obj, key) THEN obj[CHOOSE k \in 1..Len(obj) : obj[k].k = key].v ELSE Undefined
Keys(obj) == [k \in 1..Len(obj) |-> obj[k].k]

K_ID           == <<"I","D">>
K_NOMBRE       == <<"N","o","m","b","r","e">>
K_DEPARTAMENTO == <<"D","e","p","a","r","t","a","m","e","n","t","o">>
\* the accented i of 'Horas/Dia', 'Dias Cumplidos', 'Dias Incumplidos' is written i
K_HORAS_DIA    == <<"H","o","r","a","s","/","D","i","a">>
K_CUMPLIDOS    == <<"D","i","a","s"," ","C","u","m","p","l","i","d","o","s">>
K_INCUMPLIDOS  == <<"D","i","a","s"," ","I","n","c","u","m","p","l","i","d","o","s">>

MONTH == <<"J","u","l">>
YEAR  == 2025

\* `${day}-${config.month}-${config.year}`
dateKey(day) == day \o <<"-">> \o MONTH \o <<"-">> \o NatToString(YEAR)
\* `Horas-${day}`
hoursKey(day) == <<"H","o","r","a","s","-">> \o day

\* config.days.split(',').map(d => d.trim()).filter(d => d)
parseDays(s) ==
    SelectSeq([k \in 1..Len(split(s, ",")) |-> trim(split(s, ",")[k])],
              LAMBDA d : d # <<>>)

THRESHOLD == 775

\* mutant: hours <= 7.75
MutInsufficientInclusive(h) == h.n <= THRESHOLD

\* hours < 7.75
IsInsufficient(h) == h.n < THRESHOLD

\* typeof hours === 'number'
IsNumber(h) == h.t = "number"

\* the accumulators before the first day
NoDays ==
    [dayRecords |-> <<>>, totalHours |-> 0, registeredDaysCount |-> 0,
     daysWithInsufficientHours |-> 0, daysWithSufficientHours |-> 0, hoursAt |-> <<>>]

\* mutant: "REGISTRO INCOMPLETO" is not counted (as in the earlier revision)
MutCountIgnoresIncomplete(acc, h) ==
    IF IsNumber(h)
    THEN [acc EXCEPT !.totalHours = @ + h.n,
                     !.registeredDaysCount = @ + 1,
                     !.daysWithInsufficientHours = IF IsInsufficient(h) THEN @ + 1 ELSE @,
                     !.daysWithSufficientHours = IF IsInsufficient(h) THEN @ ELSE @ + 1]
    ELSE acc

\* mutant: every day is counted as registered, the days without hours included
MutCountRegistersEveryDay(acc, h) ==
    IF IsNumber(h)
    THEN [acc EXCEPT !.totalHours = @ + h.n,
                     !.registeredDaysCount = @ + 1,
                     !.daysWithInsufficientHours = IF IsInsufficient(h) THEN @ + 1 ELSE @,
                     !.daysWithSufficientHours = IF IsInsufficient(h) THEN @ ELSE @ + 1]
    ELSE IF h = Str(REGISTRO_INCOMPLETO)
    THEN [acc EXCEPT !.daysWithInsufficientHours = @ + 1,
                     !.registeredDaysCount = @ + 1]
    ELSE [acc EXCEPT !.registeredDaysCount = @ + 1]

\* lines 122-132: the counters after a day whose hours are h
Count(acc, h) ==
    IF IsNumber(h)
    THEN [acc EXCEPT !.totalHours = @ + h.n,
                     !.registeredDaysCount = @ + 1,
                     !.daysWithInsufficientHours = IF IsInsufficient(h) THEN @ + 1 ELSE @,
                     !.daysWithSufficientHours = IF IsInsufficient(h) THEN @ ELSE @ + 1]
    ELSE IF h = Str(REGISTRO_INCOMPLETO)
    THEN [acc EXCEPT !.daysWithInsufficientHours = @ + 1]
    ELSE acc

\* one call of the days.forEach callback; hoursAt is history (hours per position)
dayStep(acc, day, index, dateRow, dIn, dOut) ==
    LET value == At(dateRow, index)
        h     == calculateHours(value, dIn, dOut)
        recs  == Put(Put(acc.dayRecords, dateKey(day),
                         IF value.t # "null" /\ value.t # "undefined" THEN value ELSE Str(<<>>)),
                     hoursKey(day), h)
    IN  [Count(acc, h) EXCEPT !.dayRecords = recs, !.hoursAt = Append(@, h)]

\* days.forEach: reads[2k+1], reads[2k+2] are the days read by the two `new Date()`
RECURSIVE dayLoop(_, _, _, _, _)
dayLoop(acc, dayList, index, dateRow, reads) ==
    IF index >= Len(dayList) THEN acc
    ELSE dayLoop(dayStep(acc, dayList[index + 1], index, dateRow,
                         reads[2 * index + 1], reads[2 * index + 2]),
                 dayList, index + 1, dateRow, reads)

\* the values parseFloat((totalHours / registeredDaysCount).toFixed(2)) can take,
\* in hundredths.  When the exact quotient lies half way between two hundredths
\* the binary floating point quotient lies just below or just above it, and
\* toFixed goes either way (0.02 and 0.13 give 0.07, 0.02 and 0.03 give 0.03).
toFixed2Quotient(total, count) ==
    LET q == total \div count
        r == total % count
    IN  IF 2 * r < count THEN {q}
        ELSE IF 2 * r > count THEN {q + 1}
        ELSE {q, q + 1}

\* registeredDaysCount > 0 ? parseFloat((totalHours / registeredDaysCount).toFixed(2)) : 0
averageHours(acc) ==
    IF acc.registeredDaysCount > 0
    THEN toFixed2Quotient(acc.totalHours, acc.registeredDaysCount)
    ELSE {0}

\* the object pushed for a header row
Record(id, name, department, acc, avg) ==
    Put(Put(Put(
        PutAll(<<[k |-> K_ID, v |-> id], [k |-> K_NOMBRE, v |-> name],
                 [k |-> K_DEPARTAMENTO, v |-> department]>>, acc.dayRecords),
        K_HORAS_DIA, Num(avg)),
        K_CUMPLIDOS, Whole(acc.daysWithSufficientHours)),
        K_INCUMPLIDOS, Whole(acc.daysWithInsufficientHours))

\* if (id || name)
IsPushed(id, name) == Truthy(id) \/ Truthy(name)

\* the loop condition i < data.length - 1
InLoop == i < Len(data) - 1

----------------------------------------------------------------------------
(* Inputs of processExcel *)

\* workbook.SheetNames
SheetNames == <<"Resumen", "Reporte">>
RequestedSheets == {"Reporte", "Asistencia"}

S_x       == <<"x">>
S_E001    == <<"E","0","0","1">>
S_E002    == <<"E","0","0","2">>
S_JANE    == <<"J","a","n","e"," ","D","o","e">>
S_ANA     == <<"A","n","a">>
S_SALES   == <<"S","a","l","e","s">>
S_IT      == <<"I","T">>

Punch(h1, m1, h2, m2) == Str(HHMM(h1, m1) \o <<"\n">> \o HHMM(h2, m2))

\* header rows
H_FULL  == <<Str(ID_MARKER), Str(S_x), Str(S_E001), Str(NOMBRE_MARKER), Str(S_JANE),
             Str(DEPT_MARKER), Str(S_x), Str(S_SALES)>>
H_GAP   == <<Str(ID_MARKER), Str(S_x), Str(S_E002), Null, Str(NOMBRE_MARKER), Str(S_ANA),
             Str(DEPT_MARKER), Null, Str(S_IT)>>
H_SHORT == <<Str(ID_MARKER)>>
H_ZERO  == <<Str(ID_MARKER), Str(S_x), Num(0)>>
\* punch rows
P_FULL  == <<Punch(8, 0, 16, 0), Punch(8, 0, 15, 30)>>
P_ONE   == <<Punch(8, 0, 15, 45)>>
P_TIE   == <<Punch(8, 0, 16, 0), Punch(8, 0, 15, 44), Whole(5)>>
\* a blank row
R_EMPTY == <<Null, Str(<<>>)>>

RowPool == {H_FULL, H_GAP, H_SHORT, H_ZERO, P_FULL, P_ONE, P_TIE, R_EMPTY}

\* the grids of at most MaxRows rows, no row occurring twice
Grids == {g \in SeqsUpTo(RowPool, MaxRows) :
            \A a, b \in 1..Len(g) : a # b => g[a] # g[b]}

\* what the form accepts for config.days: /^(\d+,\s*)*\d+$/
DaysPool == { <<"1", ",", "2">>, <<"1", ",", " ", "1">> }

\* the calendar days the wall clock can show during one call, counted from the
\* day the call starts: a call lasts less than a day, so at most one midnight passes
ClockDays == {0, 1}

\* the nondecreasing sequences of n clock reads starting at day `from`
ClockReads(from, n) ==
    {r \in [1..n -> {d \in ClockDays : d >= from}] : \A k \in 1..(n - 1) : r[k] <= r[k + 1]}

----------------------------------------------------------------------------
(* processExcel *)

\* ---- the state of the component
NO_FILE == ""

\* useState<ExtractedData | null>: null, or a list of records
NullData   == [isNull |-> TRUE, rows |-> <<>>]
Data(rows) == [isNull |-> FALSE, rows |-> rows]

\* useState<SuggestMetadataOutput | null>
NullSuggestions     == [isNull |-> TRUE, suggestedSheetNames |-> <<>>]
Suggestions(names)  == [isNull |-> FALSE, suggestedSheetNames |-> names]

T_NONE       == ""
T_NO_DATA    == "No se Extrajeron Datos"
T_SUCCESS    == "Extraccion Exitosa"
T_FAILED     == "Fallo la Extraccion"
T_NO_FILE    == "No hay Archivo"
T_BAD_TYPE   == "Tipo de Archivo No Valido"

\* mutant: an empty result is kept as the extracted data
MutOnResolvedKeepsEmpty(result) ==
    [extractedData |-> Data(result), toast |-> T_SUCCESS]

\* excel-extractor.tsx lines 164-177: what onSubmit does with the records
\* processExcel resolved to
onResolved(result) ==
    IF Len(result) = 0
    THEN [extractedData |-> NullData, toast |-> T_NO_DATA]
    ELSE [extractedData |-> Data(result), toast |-> T_SUCCESS]

\* mutant: a failed extraction leaves an empty list as the extracted data
MutOnRejectedEmptyList == [extractedData |-> Data(<<>>), toast |-> T_FAILED]

\* excel-extractor.tsx lines 178-186: what onSubmit does when processExcel threw
onRejected == [extractedData |-> NullData, toast |-> T_FAILED]

\* the component outside a submit: nothing selected, nothing in flight
IdleUI ==
    /\ file = NO_FILE
    /\ extractedData = NullData
    /\ aiSuggestions = NullSuggestions
    /\ formSheetName = ""
    /\ processing = <<>>
    /\ suggesting = <<>>
    /\ toast = T_NONE
    /\ dataFile = NO_FILE
    /\ suggestionsFile = NO_FILE
    /\ sheetNameFile = NO_FILE

IdleCsv ==
    /\ csvData = <<>>
    /\ xpc = "idle"
    /\ csvRows = <<>>

IdleHours ==
    /\ timeString = Null
    /\ hpc = "idle"
    /\ hours = Undefined
    /\ inDay = 0
    /\ outDay = 0

IdleClean ==
    /\ rawData = <<>>
    /\ cpc = "idle"
    /\ cleaned = <<>>
    /\ cleanedAgain = <<>>

\* jsonData is read from the requested sheet: there is none when it is missing
Init ==
    /\ sheetName \in RequestedSheets
    /\ jsonData \in IF \E k \in 1..Len(SheetNames) : SheetNames[k] = sheetName
                     THEN Grids ELSE {<<>>}
    /\ configDays \in DaysPool
    /\ pc = "start"
    /\ data = <<>>
    /\ days = <<>>
    /\ i = 0
    /\ records = <<>>
    /\ error = [thrown |-> FALSE, message |-> <<>>]
    /\ clock = 0
    /\ log = <<>>
    /\ visited = <<>>
    /\ IdleHours
    /\ IdleClean
    /\ IdleCsv
    \* onSubmit was called with a file selected and nothing shown
    /\ file = "a.xlsx"
    /\ extractedData = NullData
    /\ aiSuggestions = NullSuggestions
    /\ formSheetName = sheetName
    /\ processing = <<>>
    /\ suggesting = <<>>
    /\ toast = T_NONE
    /\ dataFile = NO_FILE
    /\ suggestionsFile = NO_FILE
    /\ sheetNameFile = NO_FILE

\* workbook.SheetNames.includes(config.sheetName)
includesSheet(names, name) == \E k \in 1..Len(names) : names[k] = name

\* names.join(', '): the pieces of the joined text
RECURSIVE joinNames(_, _)
joinNames(names, sep) ==
    IF names = <<>> THEN <<>>
    ELSE IF Len(names) = 1 THEN <<names[1]>>
    ELSE <<names[1], sep>> \o joinNames(Tail(names), sep)

\* mutant: the message names the first sheet of the workbook only
MutNotFoundMessageFirstSheet(name, names) ==
    <<"Sheet \"", name, "\" not found. Available sheets: ">>
        \o (IF names = <<>> THEN <<>> ELSE <<names[1]>>)

\* line 79, the pieces of the template literal
notFoundMessage(name, names) ==
    <<"Sheet \"", name, "\" not found. Available sheets: ">> \o joinNames(names, ", ")

\* lines 78-80: the requested sheet is not in the workbook; onSubmit catches
\* the error (excel-extractor.tsx lines 178-186)
SheetNotFound ==
    /\ pc = "start"
    /\ ~includesSheet(SheetNames, sheetName)
    /\ pc' = "failed"
    /\ error' = [thrown |-> TRUE, message |-> notFoundMessage(sheetName, SheetNames)]
    /\ UNCHANGED <<sheetName, jsonData, configDays, data, days, i, records, clock, log, visited>>
    /\ UNCHANGED hoursVars
    /\ UNCHANGED cleanVars
    /\ extractedData' = onRejected.extractedData
    /\ toast' = onRejected.toast
    /\ UNCHANGED <<uiRest, dataFile>>
    /\ UNCHANGED csvVars

\* lines 82-88: read the sheet, clean it, parse the day list
ReadSheet ==
    /\ pc = "start"
    /\ includesSheet(SheetNames, sheetName)
    /\ data' = cleanData(jsonData)
    /\ days' = parseDays(configDays)
    /\ i' = 0
    /\ pc' = "scan"
    /\ UNCHANGED <<sheetName, jsonData, configDays, records, error, clock, log, visited>>
    /\ UNCHANGED hoursVars
    /\ UNCHANGED cleanVars
    /\ UNCHANGED uiVars
    /\ UNCHANGED csvVars

\* mutant: the row after a header row is jumped over only when a record was pushed
MutAfterHeaderOnlyWhenPushed(cursor, pushed) == IF pushed THEN cursor + 2 ELSE cursor + 1

\* mutant: the scan jumps over the row after the punch row as well
MutAfterHeaderByThree(cursor, pushed) == cursor + 3

\* the cursor after an iteration at a header row: i += 1 at line 149, outside
\* the `if (id || name)`, then the i++ of line 90
AfterHeader(cursor, pushed) == cursor + 2

\* lines 90-150, one iteration at a header row
ScanHeader ==
    /\ pc = "scan"
    /\ InLoop
    /\ isIdRow(data[i + 1])
    /\ LET row        == data[i + 1]
           id         == idOf(row)
           name       == nameOf(row)
           department == departmentOf(row)
           \* nextRow || []: data[i + 1] is undefined past the last row
           dateRow    == IF i + 1 < Len(data) THEN data[i + 2] ELSE <<>>
       IN  \E reads \in ClockReads(clock, 2 * Len(days)) :
           LET acc == dayLoop(NoDays, days, 0, dateRow, reads) IN
           \E avg \in averageHours(acc) :
              /\ records' = IF IsPushed(id, name)
                            THEN Append(records, Record(id, name, department, acc, avg))
                            ELSE records
              /\ log' = Append(log, [row |-> i, pushed |-> IsPushed(id, name),
                                     id |-> id, name |-> name,
                                     department |-> department,
                                     hoursAt |-> acc.hoursAt,
                                     totalHours |-> acc.totalHours,
                                     registeredDaysCount |-> acc.registeredDaysCount,
                                     reads |-> reads])
              /\ clock' = IF Len(reads) = 0 THEN clock ELSE reads[Len(reads)]
              /\ i' = AfterHeader(i, IsPushed(id, name))
    /\ visited' = Append(visited, i)
    /\ UNCHANGED <<sheetName, jsonData, configDays, pc, data, days, error>>
    /\ UNCHANGED hoursVars
    /\ UNCHANGED cleanVars
    /\ UNCHANGED uiVars
    /\ UNCHANGED csvVars

\* lines 90-96, one iteration at a row that is no header row
ScanOther ==
    /\ pc = "scan"
    /\ InLoop
    /\ ~isIdRow(data[i + 1])
    /\ i' = i + 1
    /\ visited' = Append(visited, i)
    /\ UNCHANGED <<sheetName, jsonData, configDays, pc, data, days, records, error, clock, log>>
    /\ UNCHANGED hoursVars
    /\ UNCHANGED cleanVars
    /\ UNCHANGED uiVars
    /\ UNCHANGED csvVars

\* line 153; onSubmit goes on with the records (excel-extractor.tsx lines 164-177)
Return ==
    /\ pc = "scan"
    /\ ~InLoop
    /\ pc' = "done"
    /\ UNCHANGED <<sheetName, jsonData, configDays, data, days, i, records, error, clock, log, visited>>
    /\ UNCHANGED hoursVars
    /\ UNCHANGED cleanVars
    /\ extractedData' = onResolved(records).extractedData
    /\ toast' = onResolved(records).toast
    /\ dataFile' = IF Len(records) = 0 THEN NO_FILE ELSE file
    /\ UNCHANGED uiRest
    /\ UNCHANGED csvVars

Next == SheetNotFound \/ ReadSheet \/ ScanHeader \/ ScanOther \/ Return

Spec == Init /\ [][Next]_vars

----------------------------------------------------------------------------
(* calculateHours called on its own *)

IdleExtract ==
    /\ sheetName = ""
    /\ jsonData = <<>>
    /\ configDays = <<>>
    /\ pc = "idle"
    /\ data = <<>>
    /\ days = <<>>
    /\ i = 0
    /\ records = <<>>
    /\ error = [thrown |-> FALSE, message |-> <<>>]
    /\ clock = 0
    /\ log = <<>>
    /\ visited = <<>>

InitHours ==
    /\ timeString \in PunchInputs
    /\ hpc = "call"
    /\ hours = Undefined
    /\ inDay = 0
    /\ outDay = 0
    /\ IdleExtract
    /\ IdleClean
    /\ IdleUI
    /\ IdleCsv

\* lines 33-71; the clock may pass midnight between lines 57 and 60
Calculate ==
    /\ hpc = "call"
    /\ \E dIn \in ClockDays : \E dOut \in {d \in ClockDays : d >= dIn} :
          /\ hours' = calculateHours(timeString, dIn, dOut)
          /\ inDay' = dIn
          /\ outDay' = dOut
    /\ hpc' = "done"
    /\ UNCHANGED timeString
    /\ UNCHANGED extractVars
    /\ UNCHANGED cleanVars
    /\ UNCHANGED uiVars
    /\ UNCHANGED csvVars

NextHours == Calculate

SpecHours == InitHours /\ [][NextHours]_vars

----------------------------------------------------------------------------
(* cleanData called on its own *)

MaxGridRows == 2
MaxCols     == 2

\* A cell of the pool is null, the empty string or a value.  The value names
\* the position of the cell, so that a moved or altered cell shows; the cell
\* of row 1, column 0 holds the number 0, a value that is not empty.
CellKinds == {"null", "empty", "value"}

CellOf(kind, r, j) ==
    IF kind = "null" THEN Null
    ELSE IF kind = "empty" THEN Str(<<>>)
    ELSE Whole(10 * (r - 1) + j)

\* the kinds of the cells of a row of 0..MaxCols cells: the rows are ragged
KindRows == UNION {[1..n -> CellKinds] : n \in 0..MaxCols}

\* the grid whose cells have the given kinds
GridOf(kinds) ==
    [r \in 1..Len(kinds) |->
        [j \in 1..Len(kinds[r]) |-> CellOf(kinds[r][j], r, j - 1)]]

InitClean ==
    /\ \E n \in 0..MaxGridRows : \E kinds \in [1..n -> KindRows] :
          rawData = GridOf(kinds)
    /\ cpc = "call"
    /\ cleaned = <<>>
    /\ cleanedAgain = <<>>
    /\ IdleExtract
    /\ IdleHours
    /\ IdleUI
    /\ IdleCsv

\* lines 10-31
Clean ==
    /\ cpc = "call"
    /\ cleaned' = cleanData(rawData)
    /\ cpc' = "cleaned"
    /\ UNCHANGED <<rawData, cleanedAgain>>
    /\ UNCHANGED extractVars
    /\ UNCHANGED hoursVars
    /\ UNCHANGED uiVars
    /\ UNCHANGED csvVars

\* lines 10-31, on the grid the first call returned
CleanAgain ==
    /\ cpc = "cleaned"
    /\ cleanedAgain' = cleanData(cleaned)
    /\ cpc' = "again"
    /\ UNCHANGED <<rawData, cleaned>>
    /\ UNCHANGED extractVars
    /\ UNCHANGED hoursVars
    /\ UNCHANGED uiVars
    /\ UNCHANGED csvVars

NextClean == Clean \/ CleanAgain

SpecClean == InitClean /\ [][NextClean]_vars

----------------------------------------------------------------------------
(* Definitions shared by the properties *)

\* the history entries of the header rows for which a record was pushed:
\* PushedLog[k] is the entry of records[k]
PushedLog == SelectSeq(log, LAMBDA e : e.pushed)

\* the 1-based indices of the rows of jsonData that cleanData keeps
KeptRowIndices(grid) ==
    SelectSeq([k \in 1..Len(grid) |-> k], LAMBDA k : RowHasValue(grid[k]))

\* the row of jsonData that became row e.row of data
RawRowOf(e) == jsonData[KeptRowIndices(jsonData)[e.row + 1]]

\* the 0-based columns of jsonData that are empty in every row that has a value
RemovedColumns ==
    {j \in 0..(MaxLen(jsonData) - 1) :
        \A r \in 1..Len(jsonData) :
            RowHasValue(jsonData[r]) => ~NonEmptyCell(At(jsonData[r], j))}

\* the 0-based position of the first cell of a row that contains the marker, or -1
MarkerAt(row, marker) ==
    IF \E k \in 1..Len(row) : row[k].t = "string" /\ includes(row[k].s, marker)
    THEN (CHOOSE k \in 1..Len(row) :
            /\ row[k].t = "string" /\ includes(row[k].s, marker)
            /\ \A q \in 1..(k - 1) : ~(row[q].t = "string" /\ includes(row[q].s, marker))) - 1
    ELSE -1

\* the row holds a cell `offset` places after its marker
HasValueAfter(row, marker, offset) ==
    MarkerAt(row, marker) # -1 /\ MarkerAt(row, marker) + offset < Len(row)
ValueAfter(row, marker, offset) == row[MarkerAt(row, marker) + offset + 1]

\* a header row that resolves an id or a name
ResolvesIdOrName(row) ==
    \/ (HasValueAfter(row, ID_MARKER, 2) /\ ValueAfter(row, ID_MARKER, 2) # Null)
    \/ (HasValueAfter(row, NOMBRE_MARKER, 1) /\ ValueAfter(row, NOMBRE_MARKER, 1) # Null)

\* the 1-based indices of the header rows of the cleaned grid that resolve an id or a name
ResolvedHeaderRows ==
    SelectSeq([k \in 1..Len(data) |-> k],
              LAMBDA k : MarkerAt(data[k], ID_MARKER) # -1 /\ ResolvesIdOrName(data[k]))

\* the positions of the day list whose computed hours are a number
NumericDays(e) == {p \in 1..Len(e.hoursAt) : e.hoursAt[p].t = "number"}

RECURSIVE SumHours(_, _)
SumHours(e, P) ==
    IF P = {} THEN 0
    ELSE LET p == CHOOSE q \in P : TRUE IN e.hoursAt[p].n + SumHours(e, P \ {p})

S_0800_1600 == <<"0","8",":","0","0","\n","1","6",":","0","0">>
S_0800_1530 == <<"0","8",":","0","0","\n","1","5",":","3","0">>

----------------------------------------------------------------------------
(* C1 *)

\* C1: extracting from the grid [H_FULL, ["08:00\n16:00", "08:00\n15:30"]] with
\* days "1,2", month Jul and year 2025 yields exactly one record, with ID=E001,
\* Nombre=Jane Doe, Departamento=Sales, Horas-1=8.0, Horas-2=7.5, Horas/Dia=7.75,
\* Dias Cumplidos=1, Dias Incumplidos=1 and the raw punch strings in the date fields.
C1_EndToEnd ==
    (pc = "done" /\ jsonData = <<H_FULL, P_FULL>> /\ configDays = <<"1", ",", "2">>)
    => /\ Len(records) = 1
       /\ Get(records[1], K_ID) = Str(S_E001)
       /\ Get(records[1], K_NOMBRE) = Str(S_JANE)
       /\ Get(records[1], K_DEPARTAMENTO) = Str(S_SALES)
       /\ Get(records[1], <<"1","-","J","u","l","-","2","0","2","5">>) = Str(S_0800_1600)
       /\ Get(records[1], <<"H","o","r","a","s","-","1">>) = Num(800)
       /\ Get(records[1], <<"2","-","J","u","l","-","2","0","2","5">>) = Str(S_0800_1530)
       /\ Get(records[1], <<"H","o","r","a","s","-","2">>) = Num(750)
       /\ Get(records[1], K_HORAS_DIA) = Num(775)
       /\ Get(records[1], K_CUMPLIDOS) = Whole(1)
       /\ Get(records[1], K_INCUMPLIDOS) = Whole(1)

----------------------------------------------------------------------------
(* C2 *)

\* C2: the records returned correspond one to one and in order to the header rows
\* of the cleaned grid that resolve an id or a name, a header row that directly
\* follows another header row included.
C2_OneRecordPerHeaderRow ==
    pc = "done" =>
        /\ Len(records) = Len(ResolvedHeaderRows)
        /\ \A k \in 1..Len(records) :
              k <= Len(ResolvedHeaderRows) =>
                 /\ Get(records[k], K_ID) = idOf(data[ResolvedHeaderRows[k]])
                 /\ Get(records[k], K_NOMBRE) = nameOf(data[ResolvedHeaderRows[k]])

----------------------------------------------------------------------------
(* C3 *)

\* C3: when the last row of the cleaned grid is a header row with a resolvable id
\* or name, a record is still emitted for it, with every date field "", every
\* Horas-{day} "NO HAY REGISTRO", Horas/Dia 0 and both day counters 0.
C3_LastHeaderRowEmitted ==
    (/\ pc = "done"
     /\ Len(data) >= 1
     /\ MarkerAt(data[Len(data)], ID_MARKER) # -1
     /\ ResolvesIdOrName(data[Len(data)]))
    => /\ Len(records) >= 1
       /\ LET rec == records[Len(records)]
              row == data[Len(data)]
          IN  /\ Get(rec, K_ID) = idOf(row)
              /\ Get(rec, K_NOMBRE) = nameOf(row)
              /\ \A d \in 1..Len(days) :
                    /\ Get(rec, dateKey(days[d])) = Str(<<>>)
                    /\ Get(rec, hoursKey(days[d])) = Str(NO_HAY_REGISTRO)
              /\ Get(rec, K_HORAS_DIA) = Num(0)
              /\ Get(rec, K_CUMPLIDOS) = Whole(0)
              /\ Get(rec, K_INCUMPLIDOS) = Whole(0)

----------------------------------------------------------------------------
(* C4 *)

\* C4: for a raw header row holding the ID value at idMarker+2, the name at
\* nameMarker+1 and the department at deptMarker+2, the record extracted from the
\* cleaned grid carries those same values, whichever empty columns were removed.
C4_RobustToColumnRemoval ==
    \A k \in 1..Len(records) :
        LET raw == RawRowOf(PushedLog[k]) IN
        (/\ HasValueAfter(raw, ID_MARKER, 2)
         /\ HasValueAfter(raw, NOMBRE_MARKER, 1)
         /\ HasValueAfter(raw, DEPT_MARKER, 2))
        => /\ Get(records[k], K_ID) = ValueAfter(raw, ID_MARKER, 2)
           /\ Get(records[k], K_NOMBRE) = ValueAfter(raw, NOMBRE_MARKER, 1)
           /\ Get(records[k], K_DEPARTAMENTO) = ValueAfter(raw, DEPT_MARKER, 2)

\* no removed column lies after the marker and at or before its value
SpanKept(row, marker, offset) ==
    \A j \in (MarkerAt(row, marker) + 1)..(MarkerAt(row, marker) + offset) :
        j \notin RemovedColumns

\* C4 (amended): each of the three fields of an emitted record equals the value the
\* raw header row holds at its marker's offset (ID +2, Nombre +1, Dept. +2),
\* provided no column removed by cleanData lies after that marker and at or
\* before that value; columns removed elsewhere do not matter.
C4_RobustUnlessSpanRemoved ==
    \A k \in 1..Len(records) :
        LET raw == RawRowOf(PushedLog[k]) IN
        /\ (HasValueAfter(raw, ID_MARKER, 2) /\ SpanKept(raw, ID_MARKER, 2))
              => Get(records[k], K_ID) = ValueAfter(raw, ID_MARKER, 2)
        /\ (HasValueAfter(raw, NOMBRE_MARKER, 1) /\ SpanKept(raw, NOMBRE_MARKER, 1))
              => Get(records[k], K_NOMBRE) = ValueAfter(raw, NOMBRE_MARKER, 1)
        /\ (HasValueAfter(raw, DEPT_MARKER, 2) /\ SpanKept(raw, DEPT_MARKER, 2))
              => Get(records[k], K_DEPARTAMENTO) = ValueAfter(raw, DEPT_MARKER, 2)

\* a record was emitted for a header row whose Nombre marker was shifted by the
\* removal of a column to its left, and carries the raw name
C4_Witness ==
    \E k \in 1..Len(records) :
        LET raw == RawRowOf(PushedLog[k]) IN
        /\ HasValueAfter(raw, NOMBRE_MARKER, 1)
        /\ SpanKept(raw, NOMBRE_MARKER, 1)
        /\ \E j \in RemovedColumns : j < MarkerAt(raw, NOMBRE_MARKER)
        /\ Get(records[k], K_NOMBRE) = ValueAfter(raw, NOMBRE_MARKER, 1)
        /\ Get(records[k], K_NOMBRE) = Str(S_ANA)

----------------------------------------------------------------------------
(* C5, C6, C7: calculateHours *)

\* C5: calculateHours is a function of its input string alone: the value returned
\* does not depend on the wall clock, nor on the clock advancing (past midnight)
\* between the construction of the check-in and of the check-out time.
C5_ClockIndependent ==
    hpc = "done" => hours = calculateHours(timeString, 0, 0)

\* the minute of the day a matched H:MM names
ClockMinutes(mt) == 60 * parseInt(mt.h) + parseInt(mt.m)

\* x hundredths is diffMinutes / 60 rounded to two decimals
IsRoundedHours(x, diffMinutes) ==
    /\ 6 * x - 10 * diffMinutes <= 3
    /\ 10 * diffMinutes - 6 * x <= 3

\* C6: for a punch string with at least two non-empty trimmed segments whose first
\* and last segment each contain an H:MM time, the check-out later than the
\* check-in, calculateHours returns the number (checkout - checkin) / 60 rounded
\* to 2 decimals, and only the first and the last segment matter.
C6_HoursValue ==
    (/\ hpc = "done"
     /\ timeString.t = "string"
     /\ Len(Parts(timeString.s)) >= 2
     /\ match(Parts(timeString.s)[1]).ok
     /\ match(Parts(timeString.s)[Len(Parts(timeString.s))]).ok
     /\ ClockMinutes(match(Parts(timeString.s)[Len(Parts(timeString.s))]))
            > ClockMinutes(match(Parts(timeString.s)[1])))
    => LET first == Parts(timeString.s)[1]
           last  == Parts(timeString.s)[Len(Parts(timeString.s))]
       IN  /\ hours.t = "number"
           /\ IsRoundedHours(hours.n, ClockMinutes(match(last)) - ClockMinutes(match(first)))
           /\ hours = calculateHours(Str(first \o <<"\n">> \o last), inDay, outDay)

\* the positions of a string holding the first non-blank character of a line:
\* one per non-empty trimmed segment
SegmentStarts(str) ==
    {p \in 1..Len(str) :
        /\ str[p] \notin WhiteSpace
        /\ \A q \in 1..(p - 1) :
              (\A r \in q..(p - 1) : str[r] # "\n") => str[q] \in WhiteSpace}

\* C7: a punch value with fewer than 2 non-empty trimmed newline separated segments
\* gives a sentinel, never a number: "NO HAY REGISTRO" when it is absent, not a
\* string, empty or has no segment, "REGISTRO INCOMPLETO" when it has exactly one.
C7_FewSegmentsSentinel ==
    hpc = "done" =>
        /\ (timeString.t # "string" \/ Cardinality(SegmentStarts(timeString.s)) = 0)
              => hours = Str(NO_HAY_REGISTRO)
        /\ (timeString.t = "string" /\ Cardinality(SegmentStarts(timeString.s)) = 1)
              => hours = Str(REGISTRO_INCOMPLETO)

\* a single time surrounded by blanks and blank lines was given, and answered
\* "REGISTRO INCOMPLETO"
C7_Witness ==
    /\ hpc = "done"
    /\ timeString.t = "string"
    /\ Cardinality(SegmentStarts(timeString.s)) = 1
    /\ Len(split(timeString.s, "\n")) = 3
    /\ \E p \in 1..Len(timeString.s) : timeString.s[p] = " "
    /\ hours = Str(REGISTRO_INCOMPLETO)

----------------------------------------------------------------------------
(* C8, C9, C10: the counters of a record *)

\* C8: Dias Cumplidos of a record is the number of positions of the day list whose
\* computed hours are a number >= 7.75 (exactly 7.75 counts, less does not).
C8_DiasCumplidos ==
    \A k \in 1..Len(records) :
        LET e == PushedLog[k] IN
        Get(records[k], K_CUMPLIDOS) =
            Whole(Cardinality({p \in NumericDays(e) : e.hoursAt[p].n >= 775}))

\* two records were emitted, one with a day of exactly 7.75 hours counted in
\* Dias Cumplidos, one with a day of 7.5 hours not counted
C8_Witness ==
    /\ \E k \in 1..Len(records) :
          /\ \E p \in NumericDays(PushedLog[k]) : PushedLog[k].hoursAt[p].n = 775
          /\ \A p \in NumericDays(PushedLog[k]) : PushedLog[k].hoursAt[p].n = 775
          /\ Get(records[k], K_CUMPLIDOS) = Whole(1)
    /\ \E k \in 1..Len(records) :
          /\ PushedLog[k].hoursAt = <<Num(800), Num(750)>>
          /\ Get(records[k], K_CUMPLIDOS) = Whole(1)

\* C9: Dias Incumplidos of a record is the number of positions whose hours are a
\* number < 7.75 plus the number whose hours are "REGISTRO INCOMPLETO"; a day with
\* "NO HAY REGISTRO" is counted in neither Dias Cumplidos nor Dias Incumplidos.
C9_DiasIncumplidos ==
    \A k \in 1..Len(records) :
        LET e    == PushedLog[k]
            low  == {p \in NumericDays(e) : e.hoursAt[p].n < 775}
            inc  == {p \in 1..Len(e.hoursAt) : e.hoursAt[p] = Str(REGISTRO_INCOMPLETO)}
            none == {p \in 1..Len(e.hoursAt) : e.hoursAt[p] = Str(NO_HAY_REGISTRO)}
        IN  /\ Get(records[k], K_INCUMPLIDOS) = Whole(Cardinality(low) + Cardinality(inc))
            /\ Get(records[k], K_CUMPLIDOS).n + Get(records[k], K_INCUMPLIDOS).n
                  = 100 * (Len(e.hoursAt) - Cardinality(none))

\* a record with a "REGISTRO INCOMPLETO" day and a "NO HAY REGISTRO" day has
\* Dias Incumplidos 1 and Dias Cumplidos 0
C9_Witness ==
    \E k \in 1..Len(records) :
        /\ \E p \in 1..Len(days) : PushedLog[k].hoursAt[p] = Str(REGISTRO_INCOMPLETO)
        /\ \E p \in 1..Len(days) : PushedLog[k].hoursAt[p] = Str(NO_HAY_REGISTRO)
        /\ Len(days) = 2
        /\ Get(records[k], K_INCUMPLIDOS) = Whole(1)
        /\ Get(records[k], K_CUMPLIDOS) = Whole(0)

\* C10: Horas/Dia of a record is the sum of its numeric per-day hours divided by
\* the number of days with numeric hours, rounded to 2 decimals, and 0 when no
\* day has numeric hours; sentinel days count in neither (8.0 and 7.5 give 7.75).
C10_HorasDia ==
    \A k \in 1..Len(records) :
        LET e   == PushedLog[k]
            cnt == Cardinality(NumericDays(e))
            sum == SumHours(e, NumericDays(e))
            avg == Get(records[k], K_HORAS_DIA)
        IN  /\ avg.t = "number"
            /\ cnt = 0 => avg.n = 0
            /\ cnt > 0 => /\ 2 * (cnt * avg.n - sum) <= cnt
                          /\ 2 * (sum - cnt * avg.n) <= cnt
            /\ e.hoursAt = <<Num(800), Num(750)>> => avg.n = 775

\* one record averages 8.0 and 7.5 to 7.75, another has a numeric day and a
\* sentinel day and its average is the numeric day's hours
C10_Witness ==
    /\ \E k \in 1..Len(records) :
          /\ PushedLog[k].hoursAt = <<Num(800), Num(750)>>
          /\ Get(records[k], K_HORAS_DIA) = Num(775)
    /\ \E k \in 1..Len(records) :
          /\ PushedLog[k].hoursAt = <<Num(775), Str(NO_HAY_REGISTRO)>>
          /\ Get(records[k], K_HORAS_DIA) = Num(775)

----------------------------------------------------------------------------
(* exportToCsv (csv-utils.ts) called on its own *)

MaxCsvRecords == 2

\* String(value) for a number with at most two decimals (kept in hundredths)
NumberToString(n) ==
    IF n % 100 = 0 THEN NatToString(n \div 100)
    ELSE IF n % 10 = 0 THEN NatToString(n \div 100) \o <<".", DigitChar((n % 100) \div 10)>>
    ELSE NatToString(n \div 100) \o <<".", DigitChar((n % 100) \div 10), DigitChar(n % 10)>>

\* line 14: (value === null || value === undefined) ? '' : String(value)
stringValue(value) ==
    IF value.t = "null" \/ value.t = "undefined" THEN <<>>
    ELSE IF value.t = "number" THEN NumberToString(value.n)
    ELSE value.s

\* stringValue.replace(/"/g, '""')
RECURSIVE doubleQuotes(_)
doubleQuotes(str) ==
    IF str = <<>> THEN <<>>
    ELSE IF str[1] = "\"" THEN <<"\"", "\"">> \o doubleQuotes(Tail(str))
    ELSE <<str[1]>> \o doubleQuotes(Tail(str))

\* lines 18-22
csvField(value) ==
    LET str == stringValue(value)
    IN  IF (\E k \in 1..Len(str) : str[k] \in {",", "\"", "\n"})
        THEN <<"\"">> \o doubleQuotes(str) \o <<"\"">>
        ELSE str

\* lines 6-25: the header line, then one line for each record; nothing is
\* written for an empty list (lines 2-4).  The file is these lines joined by
\* '\n' after a byte order mark (lines 27-28).
exportToCsv(rows) ==
    IF Len(rows) = 0 THEN <<>>
    ELSE LET headers == Keys(rows[1])
         IN  <<join(headers, ",")>> \o
             [r \in 1..Len(rows) |->
                 join([h \in 1..Len(headers) |-> csvField(Get(rows[r], headers[h]))], ",")]

\* ---- the records exported: as processExcel builds them for one day, the
\* month being any text of 3 or 4 characters the form accepts
CsvMonths == {<<"J","u","l">>, <<"J",",","l">>}
CsvIds    == {Str(S_E001), Null}
CsvPunches == {Str(<<"0","8",":","0","0","\n","1","6",":","0","0">>),
               Str(<<>>),
               Str(<<"s","a","y"," ","\"","h","i","\"",","," ","x">>)}
CsvHours  == {Num(800), Num(775), Num(3150), Str(NO_HAY_REGISTRO)}

CsvRecord(month, id, punch, h) ==
    << [k |-> K_ID, v |-> id],
       [k |-> <<"1","-">> \o month \o <<"-">> \o NatToString(YEAR), v |-> punch],
       [k |-> hoursKey(<<"1">>), v |-> h] >>

InitCsv ==
    /\ \E month \in CsvMonths : \E n \in 0..MaxCsvRecords :
       \E f \in [1..n -> CsvIds \X CsvPunches \X CsvHours] :
          csvData = [r \in 1..n |-> CsvRecord(month, f[r][1], f[r][2], f[r][3])]
    /\ xpc = "call"
    /\ csvRows = <<>>
    /\ IdleExtract
    /\ IdleHours
    /\ IdleClean
    /\ IdleUI

\* csv-utils.ts lines 1-28
Export ==
    /\ xpc = "call"
    /\ csvRows' = exportToCsv(csvData)
    /\ xpc' = "done"
    /\ UNCHANGED csvData
    /\ UNCHANGED extractVars
    /\ UNCHANGED hoursVars
    /\ UNCHANGED cleanVars
    /\ UNCHANGED uiVars

NextCsv == Export

SpecCsv == InitCsv /\ [][NextCsv]_vars

----------------------------------------------------------------------------
(* cleanData: properties *)

\* the rows of a grid have different lengths
Ragged(g) == \E a, b \in 1..Len(g) : Len(g[a]) # Len(g[b])

\* C11: cleaning a cleaned grid changes nothing: cleanData(cleanData(g)) is
\* cleanData(g), for every grid g, ragged or not, with null, empty-string and
\* missing cells.
C11_CleanIdempotent == cpc = "again" => cleanedAgain = cleaned

\* a ragged grid from which the first call removed a row and a column, and
\* left something
C11_Witness ==
    /\ cpc = "again"
    /\ Ragged(rawData)
    /\ cleaned # <<>>
    /\ Len(cleaned) < Len(rawData)
    /\ MaxLen(cleaned) < MaxLen(rawData)

\* the elements of seq at the positions of S, in their order
Sub(seq, S) ==
    [k \in 1..Cardinality(S) |->
        seq[CHOOSE j \in S : Cardinality({x \in S : x < j}) = k - 1]]

\* the grid left when only the rows of R and the columns of K are kept
Restrict(g, R, K) ==
    LET rows == Sub(g, R)
    IN  [k \in 1..Len(rows) |-> Sub(rows[k], K \cap (1..Len(rows[k])))]

----------------------------------------------------------------------------
(* processExcel: header rows and records *)

\* the field `offset` places after the marker resolves to a present value:
\* one that is neither null nor missing nor the empty string
ResolvesPresent(row, marker, offset) ==
    HasValueAfter(row, marker, offset) /\ NonEmptyCell(ValueAfter(row, marker, offset))

\* C13: a record is emitted for a visited header row exactly when its id or its
\* name resolves to a present cell value, whatever the type of the value; no
\* record is emitted when neither resolves.
C13_RecordIffResolved ==
    \A k \in 1..Len(log) :
        log[k].pushed <=>
            (\/ ResolvesPresent(data[log[k].row + 1], ID_MARKER, 2)
             \/ ResolvesPresent(data[log[k].row + 1], NOMBRE_MARKER, 1))

\* a visited header row that is skipped because it is too short for the id
\* offset and resolves no name
SkippedShort(e) ==
    /\ ~e.pushed
    /\ ~HasValueAfter(data[e.row + 1], ID_MARKER, 2)
    /\ ~ResolvesPresent(data[e.row + 1], NOMBRE_MARKER, 1)

\* C14: when a header row is skipped because it is too short for the id offset
\* and no name resolves, the scan still advances by 2: the cursor is at least
\* two rows further, the row after the skipped header gave the hours of the
\* days (it was taken as the punch row), and that row is never visited as a
\* header row.
C14_SkippedHeaderAdvancesByTwo ==
    \A k \in 1..Len(log) :
        SkippedShort(log[k]) =>
            /\ i >= log[k].row + 2
            /\ \A q \in 1..Len(log) : log[q].row # log[k].row + 1
            /\ \A p \in 1..Len(days) :
                  log[k].hoursAt[p] =
                      calculateHours(At(data[log[k].row + 2], p - 1),
                                     log[k].reads[2 * p - 1], log[k].reads[2 * p])

\* a skipped short header row followed by a header row that resolves an id:
\* the scan ended and that row gave no record
C14_Witness ==
    /\ pc = "done"
    /\ \E k \in 1..Len(log) :
          /\ SkippedShort(log[k])
          /\ isIdRow(data[log[k].row + 2])
          /\ ResolvesPresent(data[log[k].row + 2], ID_MARKER, 2)
          /\ \A r \in 1..Len(records) :
                Get(records[r], K_ID) # ValueAfter(data[log[k].row + 2], ID_MARKER, 2)

----------------------------------------------------------------------------
(* processExcel: the requested sheet is missing *)

SheetMissing == \A k \in 1..Len(SheetNames) : SheetNames[k] # sheetName

\* C15: when the requested sheet is not among the sheets of the workbook,
\* processExcel fails with an error whose message lists every sheet of the
\* workbook, and it does so before any cleaning or record construction: the
\* scan is never entered, no grid is cleaned and no record is built.
C15_MissingSheetFailsFirst ==
    SheetMissing =>
        /\ pc \in {"start", "failed"}
        /\ data = <<>>
        /\ records = <<>>
        /\ log = <<>>
        /\ pc = "failed" =>
              /\ error.thrown
              /\ \A k \in 1..Len(SheetNames) :
                    \E q \in 4..Len(error.message) : error.message[q] = SheetNames[k]

\* the call failed on a workbook of two sheets
C15_Witness ==
    /\ SheetMissing
    /\ pc = "failed"
    /\ error.thrown
    /\ Len(SheetNames) = 2
    /\ SheetNames[1] # SheetNames[2]

----------------------------------------------------------------------------
(* calculateHours: properties *)

S_0800_2570 == <<"0","8",":","0","0","\n","2","5",":","7","0">>

\* C16: whatever the punch cell holds (nothing, a number, any string, with or
\* without a time, with hour or minute digits out of range), calculateHours
\* returns a number or one of the texts "NO HAY REGISTRO" and
\* "REGISTRO INCOMPLETO": it never throws, so the days and records that
\* follow are still produced.
C16_HoursNeverFails ==
    hpc = "done" =>
        \/ hours.t = "number"
        \/ hours = Str(NO_HAY_REGISTRO)
        \/ hours = Str(REGISTRO_INCOMPLETO)

\* a check-out of 25:70 gave a number: (25 * 60 + 70 - 480) / 60 = 18.17
C16_Witness ==
    /\ hpc = "done"
    /\ timeString = Str(S_0800_2570)
    /\ inDay = outDay
    /\ hours = Num(1817)

\* the clock time a segment shows, in minutes of its day
MinutesOf(seg) == parseInt(match(seg).h) * 60 + parseInt(match(seg).m)

\* the argument is a string whose first and last segment both show a time
BothTimesParsed ==
    /\ timeString.t = "string"
    /\ Len(Parts(timeString.s)) >= 2
    /\ match(Parts(timeString.s)[1]).ok
    /\ match(Parts(timeString.s)[Len(Parts(timeString.s))]).ok

\* C17: whenever the check-out time parsed from the last segment is earlier
\* than or equal to the check-in time parsed from the first segment, the two
\* compared as times of the same day, calculateHours returns
\* "REGISTRO INCOMPLETO" and never a number.
C17_CheckoutNotAfterCheckin ==
    (/\ hpc = "done"
     /\ BothTimesParsed
     /\ MinutesOf(Parts(timeString.s)[Len(Parts(timeString.s))])
            <= MinutesOf(Parts(timeString.s)[1]))
    => hours = Str(REGISTRO_INCOMPLETO)

\* the segments of a string: its lines
Segments(str) == split(str, "\n")

\* every segment between a space and a tab
Padded(str) ==
    LET segs == Segments(str)
    IN  join([k \in 1..Len(segs) |-> <<" ">> \o segs[k] \o <<"\t">>], "\n")

\* a blank line before every segment and one after the last
RECURSIVE WithBlankLines(_)
WithBlankLines(segs) ==
    IF segs = <<>> THEN << <<" ">> >>
    ELSE << <<>>, segs[1] >> \o WithBlankLines(Tail(segs))
Spaced(str) == join(WithBlankLines(Segments(str)), "\n")

\* no white space around any segment and no blank line
Stripped(str) ==
    LET segs == Segments(str)
    IN  join(SelectSeq([k \in 1..Len(segs) |-> TrimEnd(TrimStart(segs[k]))],
                       LAMBDA seg : seg # <<>>), "\n")

\* C18: white space around the segments does not matter to calculateHours:
\* putting white space before and after every segment, putting blank lines
\* between the segments, or removing all of these gives the result of the
\* original string (the clock read the same).
C18_WhitespaceInsensitive ==
    (hpc = "done" /\ timeString.t = "string") =>
        \A v \in {Padded(timeString.s), Spaced(timeString.s), Stripped(timeString.s)} :
            calculateHours(Str(v), inDay, outDay) = hours

\* a string with a padded segment and a blank line, that gives a number
C18_Witness ==
    /\ hpc = "done"
    /\ timeString.t = "string"
    /\ hours.t = "number"
    /\ Len(Segments(timeString.s)) = 3
    /\ Len(Parts(timeString.s)) = 2
    /\ Stripped(timeString.s) # timeString.s
    /\ \E k \in 1..3 : /\ Segments(timeString.s)[k] # <<>>
                        /\ Segments(timeString.s)[k][1] = " "
                        /\ Len(Segments(timeString.s)[k]) > 1

----------------------------------------------------------------------------
(* processExcel: the day fields of a record *)

\* the punch row paired with the header row of a history entry
PunchRowOf(e) == IF e.row + 1 < Len(data) THEN data[e.row + 2] ELSE <<>>

FixedKeys == {K_ID, K_NOMBRE, K_DEPARTAMENTO, K_HORAS_DIA, K_CUMPLIDOS, K_INCUMPLIDOS}

\* C19: in every record, for the day at position p of the day list (counted
\* from 0), the date field of that day holds the cell at index p of the punch
\* row, unchanged, or "" when that cell is null or missing; a day at a
\* position beyond the end of the punch row has the date "" and the hours
\* "NO HAY REGISTRO"; the punch cells at indices from the number of days on
\* reach no field of the record.
C19_DateFieldPerPosition ==
    \A k \in 1..Len(records) :
        LET rec     == records[k]
            dateRow == PunchRowOf(PushedLog[k])
        IN  /\ \A p \in 0..(Len(days) - 1) :
                  /\ Get(rec, dateKey(days[p + 1])) =
                        IF p < Len(dateRow) /\ dateRow[p + 1] # Null
                        THEN dateRow[p + 1] ELSE Str(<<>>)
                  /\ p >= Len(dateRow) =>
                        Get(rec, hoursKey(days[p + 1])) = Str(NO_HAY_REGISTRO)
            /\ \A q \in 1..Len(Keys(rec)) :
                  Keys(rec)[q] \notin FixedKeys =>
                      \E p \in 1..Len(days) :
                          Keys(rec)[q] \in {dateKey(days[p]), hoursKey(days[p])}

----------------------------------------------------------------------------
(* processExcel: the fields of a header row *)

\* the cell `offset` places after the first cell that contains the marker,
\* null when no cell contains the marker or the place is outside the row
CellAfter(row, marker, offset) ==
    IF HasValueAfter(row, marker, offset) THEN ValueAfter(row, marker, offset) ELSE Null

\* C20: in a header row, ID is the cell 2 places after the first cell that
\* contains 'ID :', Nombre the cell 1 place after the first cell that contains
\* 'Nombre :', Departamento the cell 2 places after the first cell that
\* contains 'Dept. :'; a field is null when its marker is missing or the place
\* is outside the row.  The record of the row carries these three values.
C20_HeaderFields ==
    /\ \A k \in 1..Len(log) :
          LET row == data[log[k].row + 1]
          IN  /\ log[k].id = CellAfter(row, ID_MARKER, 2)
              /\ log[k].name = CellAfter(row, NOMBRE_MARKER, 1)
              /\ log[k].department = CellAfter(row, DEPT_MARKER, 2)
    /\ \A k \in 1..Len(records) :
          /\ Get(records[k], K_ID) = PushedLog[k].id
          /\ Get(records[k], K_NOMBRE) = PushedLog[k].name
          /\ Get(records[k], K_DEPARTAMENTO) = PushedLog[k].department

\* a record whose department is null because the place two after 'Dept. :' is
\* outside the row, its id and name being found, and a header row without
\* 'Nombre :', whose name is null
C20_Witness ==
    /\ pc = "done"
    /\ \E k \in 1..Len(records) :
          /\ Get(records[k], K_ID) = Str(S_E002)
          /\ Get(records[k], K_NOMBRE) = Str(S_ANA)
          /\ Get(records[k], K_DEPARTAMENTO) = Null
          /\ MarkerAt(data[PushedLog[k].row + 1], DEPT_MARKER) # -1
    /\ \E k \in 1..Len(log) :
          /\ MarkerAt(data[log[k].row + 1], NOMBRE_MARKER) = -1
          /\ log[k].name = Null
          /\ log[k].id # Null

----------------------------------------------------------------------------
(* processExcel and its caller: nothing found *)

\* no row of the cleaned grid holds the ID marker
NoHeaderRow == \A r \in 1..Len(data) : MarkerAt(data[r], ID_MARKER) = -1

\* C21: for the empty grid and for any grid in which no header row is
\* recognised, processExcel returns the empty list of records and does not
\* throw; onSubmit then shows the toast "No se Extrajeron Datos" and sets
\* extractedData to null.
C21_NothingFound ==
    (~SheetMissing /\ pc # "start" /\ NoHeaderRow) =>
        /\ pc \in {"scan", "done"}
        /\ ~error.thrown
        /\ records = <<>>
        /\ pc = "done" =>
              /\ extractedData = NullData
              /\ toast = T_NO_DATA
              /\ dataFile = NO_FILE

\* a grid of three rows, none of them a header row, was scanned to its end
C21_Witness ==
    /\ pc = "done"
    /\ Len(data) = 3
    /\ NoHeaderRow
    /\ records = <<>>
    /\ toast = T_NO_DATA
    /\ extractedData = NullData

----------------------------------------------------------------------------
(* exportToCsv: properties *)

\* a line of comma separated fields read back: a field in double quotes ends
\* at its closing quote, a doubled quote inside it is one quote
RECURSIVE ReadFields(_, _, _, _)
ReadFields(str, cur, inQuotes, fields) ==
    IF str = <<>> THEN Append(fields, cur)
    ELSE IF inQuotes
         THEN IF str[1] = "\""
              THEN IF Len(str) >= 2 /\ str[2] = "\""
                   THEN ReadFields(SubSeq(str, 3, Len(str)), Append(cur, "\""), TRUE, fields)
                   ELSE ReadFields(Tail(str), cur, FALSE, fields)
              ELSE ReadFields(Tail(str), Append(cur, str[1]), TRUE, fields)
         ELSE IF str[1] = "," THEN ReadFields(Tail(str), <<>>, FALSE, Append(fields, cur))
         ELSE IF str[1] = "\"" THEN ReadFields(Tail(str), cur, TRUE, fields)
         ELSE ReadFields(Tail(str), Append(cur, str[1]), FALSE, fields)

ReadLine(str) == ReadFields(str, <<>>, FALSE, <<>>)

\* the texts the fields of line k stand for: the headers for the first line,
\* the values of a record for the others
TextsOfLine(k) ==
    LET headers == Keys(csvData[1])
    IN  IF k = 1 THEN headers
        ELSE [h \in 1..Len(headers) |-> stringValue(Get(csvData[k - 1], headers[h]))]

\* C22: in the lines exportToCsv writes, the header line included, every
\* field that holds a comma, a double quote or a newline is put in double
\* quotes with its double quotes doubled, so that every line reads back as
\* exactly as many fields as there are headers, each with its text.
C22_CsvLinesReadBack ==
    (xpc = "done" /\ Len(csvData) > 0) =>
        /\ Len(csvRows) = Len(csvData) + 1
        /\ \A k \in 1..Len(csvRows) :
              /\ Len(ReadLine(csvRows[k])) = Len(Keys(csvData[1]))
              /\ ReadLine(csvRows[k]) = TextsOfLine(k)

----------------------------------------------------------------------------
(* processExcel: the scan ends *)

\* the rows an iteration uses: the row at the cursor, and the row after it
\* when the row at the cursor is a header row
RowsUsed(k) ==
    IF MarkerAt(data[visited[k] + 1], ID_MARKER) # -1
    THEN {visited[k], visited[k] + 1} ELSE {visited[k]}

\* C23: for every grid the header scan ends after at most one iteration per
\* row: the iterations made never outnumber the rows, each is at a row of the
\* grid, and the scan is left only with the cursor past the last row but one.
\* At each iteration the cursor grows by 1 or by 2.  No row of the grid is
\* used twice, neither as the header row of two records nor as a punch row and
\* as a header row.
C23_ScanTerminates ==
    /\ Len(visited) <= Len(data)
    /\ pc = "done" => i >= Len(data) - 1
    /\ \A k \in 1..Len(visited) :
          /\ visited[k] \in 0..(Len(data) - 1)
          /\ (IF k < Len(visited) THEN visited[k + 1] ELSE i) - visited[k] \in {1, 2}
          /\ \A q \in 1..Len(visited) : q # k => RowsUsed(k) \cap RowsUsed(q) = {}
    /\ \A a, b \in 1..Len(log) :
          /\ a # b => log[a].row # log[b].row
          /\ log[a].row + 1 # log[b].row

\* the scan of a grid of four rows ended after two iterations, the cursor
\* having grown by 2 at each
C23_Witness ==
    /\ pc = "done"
    /\ Len(data) = 4
    /\ visited = <<0, 2>>
    /\ i = 4

----------------------------------------------------------------------------
(* cleanData: what is left *)

\* the rows of the input that hold a value, and the columns that hold a value
\* in one of these rows (1-based)
SurvivingRows == {r \in 1..Len(rawData) : \E j \in 1..Len(rawData[r]) : NonEmptyCell(rawData[r][j])}
ValuedColumns ==
    {j \in 1..MaxLen(rawData) :
        \E r \in SurvivingRows : j <= Len(rawData[r]) /\ NonEmptyCell(rawData[r][j])}

\* C24: the cleaned grid has no row whose cells are all null, missing or
\* empty strings, and no column index that is so in every row; a column is
\* removed only if it is empty in every surviving row, so the cleaned grid
\* is the surviving rows with exactly the columns that hold a value in one
\* of them; when no row survives the cleaned grid is the empty grid.
C24_NoEmptyRowOrColumn ==
    cpc # "call" =>
        /\ \A r \in 1..Len(cleaned) :
              \E j \in 1..Len(cleaned[r]) : NonEmptyCell(cleaned[r][j])
        /\ \A j \in 1..MaxLen(cleaned) :
              \E r \in 1..Len(cleaned) : j <= Len(cleaned[r]) /\ NonEmptyCell(cleaned[r][j])
        /\ cleaned = Restrict(rawData, SurvivingRows, ValuedColumns)
        /\ SurvivingRows = {} => cleaned = <<>>

\* two rows survive, the first column is empty in both and is removed, the
\* second is kept
C24_Witness ==
    /\ cpc = "cleaned"
    /\ SurvivingRows = {1, 2}
    /\ ValuedColumns = {2}
    /\ Len(cleaned) = 2
    /\ Len(cleaned[1]) = 1
    /\ Len(cleaned[2]) = 1

----------------------------------------------------------------------------
(* processExcel: the counters and the fields of a record *)

\* the Horas-{day} keys of the records
HoursKeys == {hoursKey(days[p]) : p \in 1..Len(days)}

\* C25: in every record, for any day list the form accepts, repeated days
\* included, Dias Cumplidos is the number of Horas-{day} fields of the record
\* that hold a number >= 7.75 and Dias Incumplidos the number of its
\* Horas-{day} fields that hold a number < 7.75 or "REGISTRO INCOMPLETO".
C25_CountersAgreeWithFields ==
    \A k \in 1..Len(records) :
        /\ Get(records[k], K_CUMPLIDOS) =
              Whole(Cardinality({key \in HoursKeys :
                  /\ Get(records[k], key).t = "number"
                  /\ Get(records[k], key).n >= 775}))
        /\ Get(records[k], K_INCUMPLIDOS) =
              Whole(Cardinality({key \in HoursKeys :
                  \/ (Get(records[k], key).t = "number" /\ Get(records[k], key).n < 775)
                  \/ Get(records[k], key) = Str(REGISTRO_INCOMPLETO)}))

----------------------------------------------------------------------------
(* calculateHours: the range of the result *)

\* C26: every number calculateHours returns is greater than 0 and less than
\* 24, for every string, those included whose matched digits are no time of
\* day (an hour of 24 or more, a minute of 60 or more).
C26_HoursBetween0And24 ==
    (hpc = "done" /\ hours.t = "number") => (hours.n > 0 /\ hours.n < 2400)

----------------------------------------------------------------------------
(* processExcel: the keys of the records *)

\* the date key and the Horas key of every position of a day list, in order
RECURSIVE DayKeyPairs(_)
DayKeyPairs(list) ==
    IF list = <<>> THEN <<>>
    ELSE <<dateKey(Head(list)), hoursKey(Head(list))>> \o DayKeyPairs(Tail(list))

\* C27: the records of one extraction all have one sequence of keys: ID,
\* Nombre, Departamento, then for each day of the day list, in its order, the
\* date key followed by its Horas key, then Horas/Dia, Dias Cumplidos, Dias
\* Incumplidos; hence the keys of the first record cover every record.
C27_OneKeySequence ==
    \A k \in 1..Len(records) :
        /\ Keys(records[k]) = Keys(records[1])
        /\ Keys(records[k]) =
              <<K_ID, K_NOMBRE, K_DEPARTAMENTO>> \o DayKeyPairs(days)
                  \o <<K_HORAS_DIA, K_CUMPLIDOS, K_INCUMPLIDOS>>

----------------------------------------------------------------------------
(* ExcelExtractor (excel-extractor.tsx): file selection, submit and the
   completion of the calls in flight, in any order.  processExcel and
   suggestMetadata are taken by their outcomes: the records or the throw of
   lines 74-154 of excel-processor.ts, the sheet names the flow answers. *)

\* calls of one kind that may be in flight together
MaxInFlight == 2

Files == {"a.xlsx", "b.xlsx"}

\* workbook.SheetNames of each file
WorkbookOf(f) == IF f = "a.xlsx" THEN <<"Resumen">> ELSE <<"Reporte">>

\* the records processExcel finds in a file whose grid has a header row
RecordsOf(f) ==
    << <<[k |-> K_ID, v |-> Str(IF f = "a.xlsx" THEN S_E001 ELSE S_E002)]>> >>

\* what the user may type into the free sheet-name input
TypedSheetNames == {"Resumen", "Reporte"}

\* what the prompt of suggestMetadataFlow may answer as suggestedSheetNames:
\* nothing, or one name, of the workbook or not
PromptOutputs == {<<>>, <<"Resumen">>, <<"Reporte">>}

\* suggest-metadata.ts, suggestMetadataFlow: the suggested name first and the
\* other sheets of the workbook after it; the sheets alone without a suggestion
suggestMetadata(sheetNames, output) ==
    IF Len(output) > 0
    THEN LET other(name) == name # output[1]
         IN  <<output[1]>> \o SelectSeq(sheetNames, other)
    ELSE sheetNames

\* a sequence without its element at position j
RemoveAt(seq, j) == SubSeq(seq, 1, j - 1) \o SubSeq(seq, j + 1, Len(seq))

InitUI ==
    /\ IdleUI
    /\ IdleExtract
    /\ IdleHours
    /\ IdleClean
    /\ IdleCsv

\* handleFileChange, lines 105-149, with an .xlsx file: the state is reset
\* and the suggestion request starts
SelectFile ==
    /\ Len(suggesting) < MaxInFlight
    /\ \E f \in Files :
          /\ file' = f
          /\ suggesting' = Append(suggesting, [file |-> f])
    /\ extractedData' = NullData
    /\ aiSuggestions' = NullSuggestions
    /\ formSheetName' = ""
    /\ dataFile' = NO_FILE
    /\ suggestionsFile' = NO_FILE
    /\ sheetNameFile' = NO_FILE
    /\ UNCHANGED <<processing, toast>>
    /\ UNCHANGED <<extractVars, hoursVars, cleanVars, csvVars>>

\* handleFileChange, lines 108-115, with a file that is no .xlsx
SelectInvalid ==
    /\ toast' = T_BAD_TYPE
    /\ UNCHANGED <<uiRest, extractedData, dataFile>>
    /\ UNCHANGED <<extractVars, hoursVars, cleanVars, csvVars>>

\* lines 261-290, the sheet-name field: a select over the suggested names when
\* there are any, a free text input otherwise
TypeSheetName ==
    /\ \E name \in (IF Len(aiSuggestions.suggestedSheetNames) > 0
                    THEN {aiSuggestions.suggestedSheetNames[k] :
                              k \in 1..Len(aiSuggestions.suggestedSheetNames)}
                    ELSE TypedSheetNames) :
          formSheetName' = name
    /\ sheetNameFile' = NO_FILE
    /\ UNCHANGED <<file, aiSuggestions, processing, suggesting, suggestionsFile>>
    /\ UNCHANGED <<extractedData, toast, dataFile>>
    /\ UNCHANGED <<extractVars, hoursVars, cleanVars, csvVars>>

\* reader.onload, lines 130-137: the answer of a request in flight arrives and
\* is stored, whatever file is selected by then
SuggestionArrives ==
    /\ \E j \in 1..Len(suggesting) :
       \E output \in PromptOutputs :
       LET names == suggestMetadata(WorkbookOf(suggesting[j].file), output) IN
          /\ aiSuggestions' = Suggestions(names)
          /\ suggestionsFile' = suggesting[j].file
          /\ IF Len(names) > 0
             THEN /\ formSheetName' = names[1]
                  /\ sheetNameFile' = suggesting[j].file
             ELSE UNCHANGED <<formSheetName, sheetNameFile>>
          /\ suggesting' = RemoveAt(suggesting, j)
    /\ UNCHANGED <<file, processing>>
    /\ UNCHANGED <<extractedData, toast, dataFile>>
    /\ UNCHANGED <<extractVars, hoursVars, cleanVars, csvVars>>

\* line 132: suggestMetadata rejects inside reader.onload, where nothing
\* catches it
SuggestionFails ==
    /\ \E j \in 1..Len(suggesting) : suggesting' = RemoveAt(suggesting, j)
    /\ UNCHANGED <<file, aiSuggestions, formSheetName, processing,
                   suggestionsFile, sheetNameFile>>
    /\ UNCHANGED <<extractedData, toast, dataFile>>
    /\ UNCHANGED <<extractVars, hoursVars, cleanVars, csvVars>>

\* onSubmit, lines 151-163, of a form that passed formSchema (line 28: the
\* sheet name is not empty): processExcel is called with the selected file
Submit ==
    /\ formSheetName # ""
    /\ file # NO_FILE
    /\ Len(processing) < MaxInFlight
    /\ processing' = Append(processing, [file |-> file, sheetName |-> formSheetName])
    /\ UNCHANGED <<file, aiSuggestions, formSheetName, suggesting,
                   suggestionsFile, sheetNameFile>>
    /\ UNCHANGED <<extractedData, toast, dataFile>>
    /\ UNCHANGED <<extractVars, hoursVars, cleanVars, csvVars>>

\* onSubmit, lines 152-159
SubmitNoFile ==
    /\ formSheetName # ""
    /\ file = NO_FILE
    /\ toast' = T_NO_FILE
    /\ UNCHANGED <<uiRest, extractedData, dataFile>>
    /\ UNCHANGED <<extractVars, hoursVars, cleanVars, csvVars>>

\* lines 163-177: a processExcel call in flight resolves, to the records of
\* its file or to no record
ExtractionResolves ==
    /\ \E j \in 1..Len(processing) :
          /\ includesSheet(WorkbookOf(processing[j].file), processing[j].sheetName)
          /\ \E result \in {<<>>, RecordsOf(processing[j].file)} :
                /\ extractedData' = onResolved(result).extractedData
                /\ toast' = onResolved(result).toast
                /\ dataFile' = IF onResolved(result).extractedData.isNull
                               THEN NO_FILE ELSE processing[j].file
          /\ processing' = RemoveAt(processing, j)
    /\ UNCHANGED <<file, aiSuggestions, formSheetName, suggesting,
                   suggestionsFile, sheetNameFile>>
    /\ UNCHANGED <<extractVars, hoursVars, cleanVars, csvVars>>

\* lines 178-186: a processExcel call in flight throws (excel-processor.ts
\* lines 78-80: its file has no sheet of the requested name)
ExtractionRejects ==
    /\ \E j \in 1..Len(processing) :
          /\ ~includesSheet(WorkbookOf(processing[j].file), processing[j].sheetName)
          /\ processing' = RemoveAt(processing, j)
    /\ extractedData' = onRejected.extractedData
    /\ toast' = onRejected.toast
    /\ dataFile' = NO_FILE
    /\ UNCHANGED <<file, aiSuggestions, formSheetName, suggesting,
                   suggestionsFile, sheetNameFile>>
    /\ UNCHANGED <<extractVars, hoursVars, cleanVars, csvVars>>

NextUI ==
    \/ SelectFile
    \/ SelectInvalid
    \/ TypeSheetName
    \/ SuggestionArrives
    \/ SuggestionFails
    \/ Submit
    \/ SubmitNoFile
    \/ ExtractionResolves
    \/ ExtractionRejects

SpecUI == InitUI /\ [][NextUI]_vars

----------------------------------------------------------------------------
(* ExcelExtractor: properties *)

\* C28: whenever extractedData is not null, it was extracted from the file
\* that is selected now, under every interleaving of file selections, submits
\* and completions of processExcel calls in flight.
C28_DataOfSelectedFile ==
    ~extractedData.isNull => dataFile = file

\* C29: the suggestions held in state, and the sheet name they filled into
\* the form, belong to the file that is selected now; the answer for a file
\* selected earlier never replaces them.
C29_SuggestionsOfSelectedFile ==
    /\ ~aiSuggestions.isNull => suggestionsFile = file
    /\ sheetNameFile \in {NO_FILE, file}

\* C30: in every state of the component extractedData is null or a list with
\* at least one record; the selection of a file, and the completion of an
\* extraction that failed or found no record, leave it null.
C30_NullOrNonEmpty ==
    /\ [](extractedData.isNull \/ Len(extractedData.rows) > 0)
    /\ [][/\ Len(suggesting') > Len(suggesting) => extractedData' = NullData
          /\ (Len(processing') < Len(processing) /\ toast' \in {T_NO_DATA, T_FAILED})
                => extractedData' = NullData]_vars

\* an extraction failed after a second file was selected and nothing is left
\* in flight
C30_Witness ==
    /\ file = "b.xlsx"
    /\ toast = T_FAILED
    /\ extractedData = NullData
    /\ processing = <<>>
    /\ suggesting = <<>>

====
